---- MODULE Spec2Model ----
(***************************************************************************)
(* Model of goma's CSV -> SQL conversion (src/src/lib.rs).                 *)
(*                                                                         *)
(* Text is modelled as a sequence of one-character strings.  The output    *)
(* written to the BufWriter is modelled as the sequence of lexical tokens  *)
(* of the written text: a token is a record [k, v] where k is the literal  *)
(* text of a fixed token (";", ",", "commit", ...) or the kind of a        *)
(* variable one ("insert into", "tuple", "framing") and v is its text.     *)
(***************************************************************************)
EXTENDS Integers, Sequences, FiniteSets, TLC

\* ------------------------------------------------------------------------
\* Bounds of the model
\* ------------------------------------------------------------------------
MaxRecords == 5
MaxChunk == 2
MaxChunkInsert == 2
MaxFields == 2
BufCapacity == 6

\* ------------------------------------------------------------------------
\* Text helpers
\* ------------------------------------------------------------------------
RECURSIVE Flatten(_)
Flatten(ss) == IF ss = <<>> THEN <<>> ELSE Head(ss) \o Flatten(Tail(ss))

UpperAlpha == <<"A","B","C","D","E","F","G","H","I","J","K","L","M",
                "N","O","P","Q","R","S","T","U","V","W","X","Y","Z">>
LowerAlpha == <<"a","b","c","d","e","f","g","h","i","j","k","l","m",
                "n","o","p","q","r","s","t","u","v","w","x","y","z">>

\* char::to_lowercase on the ASCII letters
to_lowercase_char(c) ==
    IF \E i \in 1..Len(UpperAlpha) : UpperAlpha[i] = c
    THEN LowerAlpha[CHOOSE i \in 1..Len(UpperAlpha) : UpperAlpha[i] = c]
    ELSE c

\* str::to_lowercase
to_lowercase(s) == [i \in 1..Len(s) |-> to_lowercase_char(s[i])]

\* str::replace("'", "''")
RECURSIVE replace_quote(_)
replace_quote(s) ==
    IF s = <<>> THEN <<>>
    ELSE (IF Head(s) = "'" THEN <<"'", "'">> ELSE <<Head(s)>>)
         \o replace_quote(Tail(s))

IsDigit(c) == c \in {"0","1","2","3","4","5","6","7","8","9"}
IsSign(c) == c \in {"+", "-"}
AllDigits(s) == Len(s) > 0 /\ \A i \in 1..Len(s) : IsDigit(s[i])

\* Mantissa of a decimal float: Digit+ | Digit+ '.' Digit* | Digit* '.' Digit+
IsMantissa(s) ==
    /\ \A i \in 1..Len(s) : IsDigit(s[i]) \/ s[i] = "."
    /\ Cardinality({i \in 1..Len(s) : s[i] = "."}) <= 1
    /\ \E i \in 1..Len(s) : IsDigit(s[i])

\* Exponent after the 'e': Sign? Digit+
IsExponent(s) ==
    /\ Len(s) > 0
    /\ AllDigits(IF IsSign(s[1]) THEN Tail(s) ELSE s)

IsDecimal(s) ==
    LET es == {i \in 1..Len(s) : s[i] \in {"e", "E"}} IN
    IF es = {} THEN IsMantissa(s)
    ELSE LET p == CHOOSE i \in es : \A j \in es : i <= j IN
         /\ IsMantissa(SubSeq(s, 1, p - 1))
         /\ IsExponent(SubSeq(s, p + 1, Len(s)))

\* str::parse::<f64>() succeeds:
\*   Sign? ( 'inf' | 'infinity' | 'nan' | Number ), letters case-insensitive
parse_f64_ok(s) ==
    /\ Len(s) > 0
    /\ LET body == IF IsSign(s[1]) THEN Tail(s) ELSE s IN
       \/ to_lowercase(body) \in { <<"i","n","f">>,
                                   <<"i","n","f","i","n","i","t","y">>,
                                   <<"n","a","n">> }
       \/ IsDecimal(body)

\* ------------------------------------------------------------------------
\* Value formatting (get_values, get_value, is_number, is_boolean)
\* ------------------------------------------------------------------------
is_number(str) ==
    IF str = <<>> THEN FALSE ELSE parse_f64_ok(str)

\* is_boolean comparing without to_lowercase
is_boolean_exact(str) ==
    \/ <<"t","r","u","e">> = str
    \/ <<"f","a","l","s","e">> = str

is_boolean(str) ==
    \/ <<"t","r","u","e">> = to_lowercase(str)
    \/ <<"f","a","l","s","e">> = to_lowercase(str)

Quoted(result) == <<"'">> \o replace_quote(result) \o <<"'">>

get_value(result) ==
    IF is_number(result) THEN result
    ELSE IF is_boolean(result) THEN result
    ELSE IF result = <<>> THEN <<"N","U","L","L">>
    ELSE Quoted(result)

\* get_values taking the typed branch whatever args.typed is
format_value_typed(a, result) == get_value(result)

format_value(a, result) ==
    IF a.typed THEN get_value(result) ELSE Quoted(result)

get_values(a, record) ==
    <<"(">>
    \o Flatten([i \in 1..Len(record) |->
                   (IF i = 1 THEN <<>> ELSE <<", ">>)
                   \o format_value(a, record[i])])
    \o <<")">>

\* ------------------------------------------------------------------------
\* Field list (get_fields, format_fields)
\* ------------------------------------------------------------------------
\* get_fields letting the headers win over args.columns
get_fields_headers_first(a, hdrs) ==
    IF a.has_headers THEN hdrs ELSE a.columns

get_fields(a, hdrs) ==
    IF a.columns = <<>> /\ a.has_headers THEN hdrs ELSE a.columns

format_fields(fields) ==
    <<"(">>
    \o Flatten([i \in 1..Len(fields) |->
                   IF i = 1 THEN <<fields[i]>> ELSE <<", ", fields[i]>>])
    \o <<")">>

\* ------------------------------------------------------------------------
\* Output tokens (the text handed to write!/writeln!)
\* ------------------------------------------------------------------------
Tok(k) == [k |-> k, v |-> <<>>]

SEMI == Tok(";")
BLANK == Tok("\n\n")
COMMA == Tok(",")
NL == Tok("\n")
BEGIN == Tok("begin transaction")
COMMIT == Tok("commit")

\* The tokens of the literal strings the program writes
Lex(s) ==
    CASE s = "" -> <<>>
      [] s = ";" -> <<SEMI>>
      [] s = "," -> <<COMMA>>
      [] s = ";\n\n" -> <<SEMI, BLANK>>
      [] s = "begin transaction" -> <<BEGIN>>
      [] s = ";\n\ncommit;" -> <<SEMI, BLANK, COMMIT, SEMI>>
      [] s = ";\n\ncommit;\n\nbegin transaction" ->
             <<SEMI, BLANK, COMMIT, SEMI, BLANK, BEGIN>>

\* "insert into {} {} values"
InsertTok(a, fields) ==
    [k |-> "insert into",
     v |-> <<"insert into ", a.table, " ">> \o fields \o <<" values">>]

TupleTok(a, row) == [k |-> "tuple", v |-> get_values(a, row)]

FramingTok(text) == [k |-> "framing", v |-> text]

\* ------------------------------------------------------------------------
\* Inputs
\* ------------------------------------------------------------------------
ColumnSets == { <<>>, <<"c1", "c2">> }
HeaderSet == { <<"id", "name">>, <<"name">> }
RowSet == { << <<"7">>, <<"o", "'", "k">> >>, << <<>>, <<"T","r","u","e">> >> }
GoodTemplate == <<"drop table ", "{table}", ";", "\n">>
BadTemplate == <<"drop table ", "{", "\n">>
FramingSet == { GoodTemplate, BadTemplate }

Arguments ==
    [ has_headers : BOOLEAN, columns : ColumnSets,
      chunk : 0..MaxChunk, chunk_insert : 0..MaxChunkInsert,
      with_transaction : BOOLEAN, typed : BOOLEAN, table : {"t"} ]

\* ------------------------------------------------------------------------
\* State
\* ------------------------------------------------------------------------
VARIABLES
    args,               \* the Arguments of the run
    pc,                 \* position in convert / generate_sql_file / generate_sql
    result,             \* "running", "Ok", or the error the run returned
    target_created,     \* File::create(&args.target) has run
    prefix,             \* what append_file_content found at args.prefix
    suffix,             \* what append_file_content found at args.suffix
    headers,            \* csv_reader.headers()
    read,               \* the rows csv_reader.records() has yielded so far
    out,                \* tokens written to the writer
    insert_fields,      \* generate_sql: insert_fields
    chunk_count,        \* generate_sql: chunk_count
    chunk_insert_count, \* generate_sql: chunk_insert_count
    insert_separator,   \* generate_sql: insert_separator
    malformed,          \* csv_reader.records() has yielded an Err
    disk_ok,            \* writes to the target file succeed
    on_disk             \* how many tokens of out the BufWriter has flushed

vars == << args, pc, result, target_created, prefix, suffix, headers, read,
           out, insert_fields, chunk_count, chunk_insert_count,
           insert_separator, malformed, disk_ok, on_disk >>

Unseen == <<"unseen">>
Missing == <<"missing">>

\* the state at the call of convert
Start ==
    /\ args \in Arguments
    /\ pc = "convert"
    /\ result = "running"
    /\ target_created = FALSE
    /\ prefix = Unseen
    /\ suffix = Unseen
    /\ headers = <<>>
    /\ read = <<>>
    /\ out = <<>>
    /\ insert_fields = <<>>
    /\ chunk_count = 0
    /\ chunk_insert_count = 0
    /\ insert_separator = ""
    /\ malformed = FALSE
    /\ on_disk = 0

\* a run whose target file accepts every write
Init == Start /\ disk_ok = TRUE

\* a run whose target file may refuse the writes
InitSink == Start /\ disk_ok \in BOOLEAN

Return(r) == pc' = "done" /\ result' = r

\* ------------------------------------------------------------------------
\* TargetSql::convert / TargetCsv::convert
\* ------------------------------------------------------------------------
\* convert checking the source only after the target has been created
ConvertNotFound_after_create ==
    /\ pc = "convert"
    /\ Return("NotFound")
    /\ target_created' = TRUE
    /\ UNCHANGED << args, prefix, suffix, headers, read, out,
                    insert_fields, chunk_count, chunk_insert_count,
                    insert_separator, malformed, disk_ok, on_disk >>

ConvertNotFound ==
    /\ pc = "convert"
    /\ Return("NotFound")
    /\ UNCHANGED << args, target_created, prefix, suffix, headers, read, out,
                    insert_fields, chunk_count, chunk_insert_count,
                    insert_separator,
                    malformed, disk_ok, on_disk >>

\* the source exists but File::open fails
ConvertOpenErr ==
    /\ pc = "convert"
    /\ Return("OpenError")
    /\ UNCHANGED << args, target_created, prefix, suffix, headers, read, out,
                    insert_fields, chunk_count, chunk_insert_count,
                    insert_separator,
                    malformed, disk_ok, on_disk >>

ConvertOk ==
    /\ pc = "convert"
    /\ pc' = "create"
    /\ UNCHANGED << args, result, target_created, prefix, suffix, headers,
                    read, out, insert_fields, chunk_count, chunk_insert_count,
                    insert_separator,
                    malformed, disk_ok, on_disk >>

\* ------------------------------------------------------------------------
\* generate_sql_file
\* ------------------------------------------------------------------------
CreateTarget ==
    /\ pc = "create"
    /\ target_created' = TRUE
    /\ pc' = "prefix"
    /\ UNCHANGED << args, result, prefix, suffix, headers, read, out,
                    insert_fields, chunk_count, chunk_insert_count,
                    insert_separator,
                    malformed, disk_ok, on_disk >>

\* File::create(..).expect(..) panics
CreateTargetPanic ==
    /\ pc = "create"
    /\ Return("Panic")
    /\ UNCHANGED << args, target_created, prefix, suffix, headers, read, out,
                    insert_fields, chunk_count, chunk_insert_count,
                    insert_separator,
                    malformed, disk_ok, on_disk >>

\* ------------------------------------------------------------------------
\* The BufWriter over the target file
\* ------------------------------------------------------------------------
RECURSIVE sink_write(_, _)
\* BufWriter::write of each token in turn: a token that does not fit makes
\* the writer flush its buffer to the file first, and a failed flush is the
\* error of the write
sink_write(s, toks) ==
    IF toks = <<>> \/ s.failed THEN s
    ELSE LET full == Len(s.out) - s.on_disk + 1 > BufCapacity
             f == IF ~full THEN s
                  ELSE IF disk_ok THEN [s EXCEPT !.on_disk = Len(s.out)]
                  ELSE [s EXCEPT !.failed = TRUE] IN
         IF f.failed THEN f
         ELSE sink_write([f EXCEPT !.out = Append(@, Head(toks))], Tail(toks))

\* write!(writer, ..) of toks in the current state
Sunk(toks) ==
    sink_write([out |-> out, on_disk |-> on_disk, failed |-> FALSE], toks)

\* the BufWriter is dropped: it flushes what it holds and ignores a failure
Dropped(s) == IF disk_ok THEN Len(s.out) ELSE s.on_disk

\* the state after a write: the error of a failed write is returned with ?,
\* otherwise the function goes on to nextpc (and returns r when that ends it)
Written(s, nextpc, r) ==
    /\ out' = s.out
    /\ IF s.failed
       THEN Return("WriteError") /\ on_disk' = Dropped(s)
       ELSE /\ pc' = nextpc
            /\ result' = r
            /\ on_disk' = IF nextpc = "done" THEN Dropped(s) ELSE s.on_disk

\* tt.add_template / tt.render succeed
TemplateOk(template) == \A i \in 1..Len(template) : template[i] # "{"

\* tt.render("append", context)
render(template, a) ==
    [i \in 1..Len(template) |->
        IF template[i] = "{table}" THEN a.table ELSE template[i]]

\* append_file_content reaching writeln! with nothing rendered
append_file_content_newline(file, a) ==
    IF file = Missing THEN <<NL>>
    ELSE <<FramingTok(render(file, a)), NL>>

\* the tokens append_file_content writes for the file found at a path
append_file_content(file, a) ==
    IF file = Missing THEN <<>>
    ELSE <<FramingTok(render(file, a)), NL>>

append_file_content_ok(file) == file = Missing \/ TemplateOk(file)

AppendPrefix ==
    /\ pc = "prefix"
    /\ \E file \in FramingSet \cup {Missing} :
          /\ prefix' = file
          /\ IF append_file_content_ok(file)
             THEN Written(Sunk(append_file_content(file, args)),
                          "headers", "running")
             ELSE Written(Sunk(<<>>), "done", "InvalidInput")
    /\ UNCHANGED << args, target_created, suffix, headers, read,
                    insert_fields, chunk_count, chunk_insert_count,
                    insert_separator, malformed, disk_ok >>

AppendSuffix ==
    /\ pc = "suffix"
    /\ \E file \in FramingSet \cup {Missing} :
          /\ suffix' = file
          /\ IF append_file_content_ok(file)
             THEN Written(Sunk(append_file_content(file, args)), "done", "Ok")
             ELSE Written(Sunk(<<>>), "done", "InvalidInput")
    /\ UNCHANGED << args, target_created, prefix, headers, read,
                    insert_fields, chunk_count, chunk_insert_count,
                    insert_separator, malformed, disk_ok >>

\* ------------------------------------------------------------------------
\* generate_sql
\*   The local state of generate_sql is handled as a record
\*   [out, chunk_count, chunk_insert_count, insert_separator].
\* ------------------------------------------------------------------------

\* gen_begin without the else branch that empties insert_separator
gen_begin_keep_separator(a, written) ==
    [ out |-> written
              \o (IF a.with_transaction THEN Lex("begin transaction") ELSE <<>>),
      chunk_count |-> 0,
      chunk_insert_count |-> 0,
      insert_separator |-> ";\n\n" ]

\* lines 74-82: the locals' initial values and the opening of the transaction
gen_begin(a, written) ==
    [ out |-> written
              \o (IF a.with_transaction THEN Lex("begin transaction") ELSE <<>>),
      chunk_count |-> 0,
      chunk_insert_count |-> 0,
      insert_separator |-> IF a.with_transaction THEN ";\n\n" ELSE "" ]

\* chunk_boundary comparing with > in place of ==
chunk_boundary_late(a, st) ==
    IF a.chunk > 0 /\ st.chunk_count > a.chunk
    THEN [st EXCEPT !.out = @ \o Lex(";\n\ncommit;\n\nbegin transaction"),
                    !.chunk_count = 0]
    ELSE st

\* chunk_boundary cycling transactions only when with_transaction is set
chunk_boundary_guarded(a, st) ==
    IF a.with_transaction /\ a.chunk > 0 /\ st.chunk_count = a.chunk
    THEN [st EXCEPT !.out = @ \o Lex(";\n\ncommit;\n\nbegin transaction"),
                    !.chunk_count = 0]
    ELSE st

\* chunk_boundary committing without opening the next transaction
chunk_boundary_no_begin(a, st) ==
    IF a.chunk > 0 /\ st.chunk_count = a.chunk
    THEN [st EXCEPT !.out = @ \o Lex(";\n\ncommit;"),
                    !.chunk_count = 0]
    ELSE st

\* lines 86-89: the transaction boundary of a full statement chunk
chunk_boundary(a, st) ==
    IF a.chunk > 0 /\ st.chunk_count = a.chunk
    THEN [st EXCEPT !.out = @ \o Lex(";\n\ncommit;\n\nbegin transaction"),
                    !.chunk_count = 0]
    ELSE st

\* statement_head testing the chunk boundary on every record
statement_head_boundary_every_row(a, fields, st) ==
    LET b == chunk_boundary(a, st) IN
    IF st.chunk_insert_count = 0
    THEN [b EXCEPT !.out = @ \o Lex(b.insert_separator)
                             \o <<InsertTok(a, fields)>>,
                   !.insert_separator = "",
                   !.chunk_count = @ + 1]
    ELSE b

\* lines 85-94: a record that starts a new INSERT statement
statement_head(a, fields, st) ==
    IF st.chunk_insert_count = 0
    THEN LET b == chunk_boundary(a, st) IN
         [b EXCEPT !.out = @ \o Lex(b.insert_separator)
                             \o <<InsertTok(a, fields)>>,
                   !.insert_separator = "",
                   !.chunk_count = @ + 1]
    ELSE st

\* write_row leaving out the rows that continue a multi-row statement
write_row_first_only(a, st, row) ==
    IF st.insert_separator = "," THEN st
    ELSE [st EXCEPT !.out = @ \o Lex(st.insert_separator)
                              \o <<NL, TupleTok(a, row)>>]

\* line 97: Ok(row)
write_row(a, st, row) ==
    [st EXCEPT !.out = @ \o Lex(st.insert_separator)
                         \o <<NL, TupleTok(a, row)>>]

\* advance_insert_chunk comparing before the increment
advance_insert_chunk_late(a, st) ==
    IF a.chunk_insert > 0
    THEN IF a.chunk_insert = st.chunk_insert_count
         THEN [st EXCEPT !.chunk_insert_count = 0,
                         !.insert_separator = ";\n\n"]
         ELSE [st EXCEPT !.chunk_insert_count = @ + 1,
                         !.insert_separator = ","]
    ELSE [st EXCEPT !.insert_separator = ";\n\n"]

\* lines 101-110: the row-chunk counters
advance_insert_chunk(a, st) ==
    IF a.chunk_insert > 0
    THEN IF a.chunk_insert = st.chunk_insert_count + 1
         THEN [st EXCEPT !.chunk_insert_count = 0,
                         !.insert_separator = ";\n\n"]
         ELSE [st EXCEPT !.chunk_insert_count = @ + 1,
                         !.insert_separator = ","]
    ELSE [st EXCEPT !.insert_separator = ";\n\n"]

\* lines 85-110: one iteration of the loop over an Ok(row)
loop_body(a, fields, st, row) ==
    advance_insert_chunk(a, write_row(a, statement_head(a, fields, st), row))

\* gen_end closing with a bare `;` whatever with_transaction is
gen_end_no_commit(a, st) == [st EXCEPT !.out = @ \o Lex(";")]

\* gen_end writing the pending insert_separator before the terminator
gen_end_flush_separator(a, st) ==
    [st EXCEPT !.out = @ \o Lex(st.insert_separator)
                         \o (IF a.with_transaction
                             THEN Lex(";\n\ncommit;") ELSE Lex(";"))]

\* lines 113-117: the closing terminator
gen_end(a, st) ==
    [st EXCEPT !.out = @ \o (IF a.with_transaction
                             THEN Lex(";\n\ncommit;") ELSE Lex(";"))]

Locals == [ out |-> out, chunk_count |-> chunk_count,
            chunk_insert_count |-> chunk_insert_count,
            insert_separator |-> insert_separator ]

\* the locals become st, and what st adds to the output goes to the writer
SetLocals(st, nextpc, r) ==
    /\ Written(Sunk(SubSeq(st.out, Len(out) + 1, Len(st.out))), nextpc, r)
    /\ chunk_count' = st.chunk_count
    /\ chunk_insert_count' = st.chunk_insert_count
    /\ insert_separator' = st.insert_separator

\* line 72 fails: csv_reader.headers()? returns the reader's error
GenerateSqlHeadersErr ==
    /\ pc = "headers"
    /\ Written(Sunk(<<>>), "done", "Other")
    /\ UNCHANGED << args, target_created, prefix, suffix, headers, read,
                    insert_fields, chunk_count, chunk_insert_count,
                    insert_separator, malformed, disk_ok >>

\* lines 72-82
GenerateSqlBegin ==
    /\ pc = "headers"
    /\ \E h \in HeaderSet :
          /\ headers' = h
          /\ insert_fields' = format_fields(get_fields(args, h))
    /\ SetLocals(gen_begin(args, out), "loop", "running")
    /\ UNCHANGED << args, target_created, prefix, suffix, read, malformed,
                    disk_ok >>

\* lines 84-111, the iterator yields Ok(row)
LoopRecord ==
    /\ pc = "loop"
    /\ Len(read) < MaxRecords
    /\ \E row \in RowSet :
          /\ read' = Append(read, row)
          /\ SetLocals(loop_body(args, insert_fields, Locals, row),
                       "loop", "running")
    /\ UNCHANGED << args, target_created, prefix, suffix, headers,
                    insert_fields, malformed, disk_ok >>

\* the Err arm skipping the record in place of returning
LoopRecordErr_continue ==
    /\ pc = "loop"
    /\ Len(read) < MaxRecords
    /\ malformed' = TRUE
    /\ SetLocals(statement_head(args, insert_fields, Locals),
                 "loop", "running")
    /\ UNCHANGED << args, target_created, prefix, suffix, headers, read,
                    insert_fields, disk_ok >>

\* the Err arm leaving the loop without returning the error
LoopRecordErr_to_suffix ==
    /\ pc = "loop"
    /\ Len(read) < MaxRecords
    /\ malformed' = TRUE
    /\ SetLocals(statement_head(args, insert_fields, Locals),
                 "suffix", "running")
    /\ UNCHANGED << args, target_created, prefix, suffix, headers, read,
                    insert_fields, disk_ok >>

\* lines 84-99, the iterator yields Err(e)
LoopRecordErr ==
    /\ pc = "loop"
    /\ Len(read) < MaxRecords
    /\ malformed' = TRUE
    /\ SetLocals(statement_head(args, insert_fields, Locals),
                 "done", "InvalidData")
    /\ UNCHANGED << args, target_created, prefix, suffix, headers, read,
                    insert_fields, disk_ok >>

\* lines 113-119, the iterator is exhausted
GenerateSqlEnd ==
    /\ pc = "loop"
    /\ SetLocals(gen_end(args, Locals), "suffix", "running")
    /\ UNCHANGED << args, target_created, prefix, suffix, headers,
                    read, insert_fields, malformed, disk_ok >>

Next ==
    \/ ConvertNotFound
    \/ ConvertOpenErr
    \/ ConvertOk
    \/ CreateTarget
    \/ CreateTargetPanic
    \/ AppendPrefix
    \/ GenerateSqlHeadersErr
    \/ GenerateSqlBegin
    \/ LoopRecord
    \/ LoopRecordErr
    \/ GenerateSqlEnd
    \/ AppendSuffix

Spec == Init /\ [][Next]_vars

SpecSink == InitSink /\ [][Next]_vars

\* ------------------------------------------------------------------------
\* The whole output of a run, as a function of its inputs
\* ------------------------------------------------------------------------
RECURSIVE loop_over(_, _, _, _)
\* lines 84-111 over a stream of Ok rows
loop_over(a, fields, st, rows) ==
    IF rows = <<>> THEN st
    ELSE loop_over(a, fields, loop_body(a, fields, st, Head(rows)), Tail(rows))

\* what generate_sql appends to `written` when it returns Ok(())
generate_sql(a, hdrs, rows, written) ==
    gen_end(a, loop_over(a, format_fields(get_fields(a, hdrs)),
                         gen_begin(a, written), rows)).out

\* what generate_sql_file has written when it returns Ok(())
generate_sql_file(a, prefixFile, hdrs, rows, suffixFile) ==
    generate_sql(a, hdrs, rows, append_file_content(prefixFile, a))
    \o append_file_content(suffixFile, a)

\* ------------------------------------------------------------------------
\* Value formatting on its own: get_values applied to one record
\* ------------------------------------------------------------------------
Values ==
    { <<>>, <<"4","2">>, <<"3",".","1","4">>, <<"-","1","e","5">>,
      <<"t","r","u","e">>, <<"F","A","L","S","E">>, <<"T","r","u","e","s">>,
      <<"O","'","B">>, <<"'">>, <<"a","b","c">>, <<"N","U","L","L">>,
      <<"n","a","n">>, <<"e">>, <<".">>, <<"1","e">> }

RowsUpTo(n) == UNION { [1..m -> Values] : m \in 0..n }

InitValues ==
    /\ args \in [ has_headers : {TRUE}, columns : {<<>>}, chunk : {0},
                  chunk_insert : {0}, with_transaction : {FALSE},
                  typed : BOOLEAN, table : {"t"} ]
    /\ pc = "values"
    /\ result = "running"
    /\ target_created = FALSE
    /\ prefix = Unseen
    /\ suffix = Unseen
    /\ headers = <<>>
    /\ read \in { <<row>> : row \in RowsUpTo(MaxFields) }
    /\ out = <<>>
    /\ insert_fields = <<>>
    /\ chunk_count = 0
    /\ chunk_insert_count = 0
    /\ insert_separator = ""
    /\ malformed = FALSE
    /\ disk_ok = TRUE
    /\ on_disk = 0

\* get_values(args, &row)
FormatRecord ==
    /\ pc = "values"
    /\ out' = <<TupleTok(args, read[1])>>
    /\ pc' = "formatted"
    /\ UNCHANGED << args, result, target_created, prefix, suffix, headers,
                    read, insert_fields, chunk_count, chunk_insert_count,
                    insert_separator, malformed, disk_ok, on_disk >>

NextValues == FormatRecord

SpecValues == InitValues /\ [][NextValues]_vars

\* ------------------------------------------------------------------------
\* Reading the output back
\* ------------------------------------------------------------------------
Front(o) == SubSeq(o, 1, Len(o) - 1)
Last(o) == o[Len(o)]
Kinds(o) == [i \in 1..Len(o) |-> o[i].k]
Ceil(n, k) == (n + k - 1) \div k
Succeeded == pc = "done" /\ result = "Ok"

\* the output without the rendered prefix and suffix
WithoutPrefix(o) ==
    IF Len(o) >= 2 /\ o[1].k = "framing" THEN SubSeq(o, 3, Len(o)) ELSE o
WithoutSuffix(o) ==
    IF Len(o) >= 2 /\ o[Len(o) - 1].k = "framing"
    THEN SubSeq(o, 1, Len(o) - 2) ELSE o
Generated(o) == WithoutPrefix(WithoutSuffix(o))

RECURSIVE RowCounts(_)
\* the number of value rows of each INSERT statement, in order
RowCounts(o) ==
    IF o = <<>> THEN <<>>
    ELSE LET pre == RowCounts(Front(o)) IN
         IF Last(o).k = "insert into" THEN Append(pre, 0)
         ELSE IF Last(o).k = "tuple" /\ pre # <<>>
              THEN [pre EXCEPT ![Len(pre)] = @ + 1]
              ELSE pre

RECURSIVE Blocks(_)
\* the transaction blocks of the output: the number of INSERT statements of
\* each `begin transaction` ... `commit` block in order, whether a block is
\* open at the end, and whether every marker and statement was in place
Blocks(o) ==
    IF o = <<>> THEN [n |-> <<>>, open |-> FALSE, ok |-> TRUE]
    ELSE LET b == Blocks(Front(o))
             t == Last(o) IN
         IF t = BEGIN
         THEN [n |-> Append(b.n, 0), open |-> TRUE, ok |-> b.ok /\ ~b.open]
         ELSE IF t = COMMIT
         THEN [b EXCEPT !.open = FALSE, !.ok = b.ok /\ b.open]
         ELSE IF t.k = "insert into"
         THEN IF b.open
              THEN [b EXCEPT !.n[Len(b.n)] = @ + 1]
              ELSE [b EXCEPT !.ok = FALSE]
         ELSE b

\* ------------------------------------------------------------------------
\* C1: with chunk_insert = k > 0, a successful run over N >= 1 records emits
\* exactly ceil(N/k) INSERT statements, all but the last with exactly k rows
\* and the last with N - k*(ceil(N/k)-1) rows (between 1 and k); with
\* chunk_insert = 0 every statement carries exactly one row.
\* ------------------------------------------------------------------------
C1_RowsPerStatement ==
    (Succeeded /\ Len(read) >= 1) =>
        LET N == Len(read)
            k == args.chunk_insert
            rc == RowCounts(out) IN
        IF k > 0
        THEN /\ Len(rc) = Ceil(N, k)
             /\ \A j \in 1..(Len(rc) - 1) : rc[j] = k
             /\ rc[Len(rc)] = N - k * (Ceil(N, k) - 1)
             /\ rc[Len(rc)] \in 1..k
        ELSE /\ Len(rc) = N
             /\ \A j \in 1..Len(rc) : rc[j] = 1

C1_Witness ==
    /\ Succeeded
    /\ args.chunk_insert = 2
    /\ Len(read) = 3
    /\ RowCounts(out) = <<2, 1>>

\* ------------------------------------------------------------------------
\* C2: with with_transaction and chunk = c > 0, a successful run over N >= 1
\* records puts the INSERT statements, in order, into consecutive
\* `begin transaction` ... `commit;` blocks; every block but the last holds
\* exactly c statements and the last holds between 1 and c.
\* ------------------------------------------------------------------------
C2_StatementsPerBlock ==
    (Succeeded /\ args.with_transaction /\ args.chunk > 0 /\ Len(read) >= 1) =>
        LET c == args.chunk
            b == Blocks(out) IN
        /\ b.ok
        /\ ~b.open
        /\ Len(b.n) >= 1
        /\ \A j \in 1..(Len(b.n) - 1) : b.n[j] = c
        /\ b.n[Len(b.n)] \in 1..c
        /\ Len(b.n) = Ceil(Len(RowCounts(out)), c)

C2_Witness ==
    /\ Succeeded
    /\ args.with_transaction
    /\ args.chunk = 2
    /\ Blocks(out).n = <<2, 1>>

\* ------------------------------------------------------------------------
\* C3: with with_transaction = false, chunk = 0 and chunk_insert = 0, a
\* successful run over N records emits exactly N single-row statements, each
\* terminated by `;`, consecutive ones separated by a blank line, and neither
\* `begin transaction` nor `commit`.
\* ------------------------------------------------------------------------
C3_PlainKinds(n) ==
    [i \in 1..(5 * n - 1) |->
        CASE i % 5 = 1 -> "insert into"
          [] i % 5 = 2 -> "\n"
          [] i % 5 = 3 -> "tuple"
          [] i % 5 = 4 -> ";"
          [] i % 5 = 0 -> "\n\n"]

C3_PlainStatements ==
    (/\ Succeeded
     /\ ~args.with_transaction
     /\ args.chunk = 0
     /\ args.chunk_insert = 0) =>
        LET g == Generated(out)
            N == Len(read) IN
        /\ \A i \in 1..Len(g) : g[i] # BEGIN /\ g[i] # COMMIT
        /\ Len(RowCounts(g)) = N
        /\ N >= 1 => Kinds(g) = C3_PlainKinds(N)

C3_Witness ==
    /\ Succeeded
    /\ ~args.with_transaction
    /\ args.chunk = 0
    /\ args.chunk_insert = 0
    /\ Len(read) = 3
    /\ Len(RowCounts(out)) = 3

\* ------------------------------------------------------------------------
\* C4: with chunk > 0 the with_transaction argument is ignored: the output
\* of a successful run equals the output the same inputs give with
\* with_transaction inverted.
\* ------------------------------------------------------------------------
C4_TransactionIgnored ==
    (Succeeded /\ args.chunk > 0) =>
        out = generate_sql_file([args EXCEPT !.with_transaction = ~@],
                                prefix, headers, read, suffix)

\* ------------------------------------------------------------------------
\* C5: with chunk = c > 0 and with_transaction = false, every record that
\* starts a new INSERT statement while chunk_count = c still makes the
\* program write `commit;` followed by `begin transaction`, and the output
\* is unbalanced: nothing opens a transaction before the first `commit;`,
\* no `begin transaction` precedes the first statement and no `commit;`
\* follows the last one.
\* ------------------------------------------------------------------------
C5_IsPrefix(p, o) == Len(p) <= Len(o) /\ SubSeq(o, 1, Len(p)) = p

C5_BoundaryStep ==
    (/\ pc = "loop"
     /\ pc' # "suffix"
     /\ ~args.with_transaction
     /\ args.chunk > 0
     /\ chunk_insert_count = 0
     /\ chunk_count = args.chunk) =>
        /\ C5_IsPrefix(out \o <<SEMI, BLANK, COMMIT, SEMI, BLANK, BEGIN,
                                 SEMI, BLANK>>, out')
        /\ out'[Len(out) + 9].k = "insert into"

C5_Markers(o) == SelectSeq(o, LAMBDA t : t = BEGIN \/ t = COMMIT)

C5_Unbalanced ==
    (~args.with_transaction /\ args.chunk > 0) =>
        LET g == Generated(out)
            m == C5_Markers(g) IN
        /\ m # <<>> => (m[1] = COMMIT /\ ~Blocks(g).ok)
        /\ \A i \in 1..Len(m) : m[i] = (IF i % 2 = 1 THEN COMMIT ELSE BEGIN)
        /\ g # <<>> => g[1] # BEGIN
        /\ Succeeded => (Len(g) >= 1 /\ Last(g) = SEMI
                         /\ (Len(g) >= 2 => g[Len(g) - 1] # COMMIT))

C5_DanglingMarkers == [](C5_Unbalanced) /\ [][C5_BoundaryStep]_vars

C5_Witness ==
    /\ Succeeded
    /\ ~args.with_transaction
    /\ args.chunk = 1
    /\ C5_Markers(out) = <<COMMIT, BEGIN, COMMIT, BEGIN>>

\* ------------------------------------------------------------------------
\* C6: when columns is non-empty the field list of every `insert into`
\* clause is columns in order, joined by ", " inside parentheses, whatever
\* has_headers and the header record are; when columns is empty and
\* has_headers is true it is the header record's values in order.  Every
\* INSERT statement of a run has the same field list.
\* ------------------------------------------------------------------------
C6_Joined(names) ==
    [i \in 1..(2 * Len(names) - 1) |->
        IF i % 2 = 1 THEN names[(i + 1) \div 2] ELSE ", "]

C6_Clause(names) ==
    <<"insert into ", args.table, " ", "(">> \o C6_Joined(names)
    \o <<")", " values">>

C6_FieldList ==
    \A i \in 1..Len(out) :
        out[i].k = "insert into" =>
            /\ args.columns # <<>> => out[i].v = C6_Clause(args.columns)
            /\ (args.columns = <<>> /\ args.has_headers)
                  => out[i].v = C6_Clause(headers)
            /\ \A j \in 1..Len(out) :
                  out[j].k = "insert into" => out[j].v = out[i].v

C6_Witness ==
    /\ Succeeded
    /\ args.columns # <<>>
    /\ args.has_headers
    /\ headers # args.columns
    /\ Len(RowCounts(out)) >= 2

\* ------------------------------------------------------------------------
\* C7: when columns is empty and has_headers is false the run fails with a
\* configuration error and never writes an INSERT statement.
\* ------------------------------------------------------------------------
C7_NoFieldListFails ==
    (args.columns = <<>> /\ ~args.has_headers) =>
        /\ \A i \in 1..Len(out) : out[i].k # "insert into"
        /\ pc = "done" => result # "Ok"

\* ------------------------------------------------------------------------
\* C8: with typed = false every field of a record is emitted as a
\* single-quoted literal with each embedded single quote doubled; the empty
\* string is emitted as '' and never as NULL.
\* ------------------------------------------------------------------------
C8_Doubled(f) ==
    Flatten([i \in 1..Len(f) |->
                IF f[i] = "'" THEN <<"'", "'">> ELSE <<f[i]>>])

C8_Literal(f) ==
    IF f = <<>> THEN <<"'", "'">> ELSE <<"'">> \o C8_Doubled(f) \o <<"'">>

RECURSIVE C8_Tuple(_)
C8_Tuple(lits) ==
    IF lits = <<>> THEN <<>>
    ELSE IF Len(lits) = 1 THEN lits[1]
    ELSE C8_Tuple(Front(lits)) \o <<", ">> \o Last(lits)

C8_UntypedQuoted ==
    (pc = "formatted" /\ ~args.typed) =>
        LET row == read[1] IN
        /\ out[1].v = <<"(">>
                      \o C8_Tuple([i \in 1..Len(row) |-> C8_Literal(row[i])])
                      \o <<")">>
        /\ \A i \in 1..Len(row) : C8_Literal(row[i]) # <<"N","U","L","L">>

C8_Witness ==
    /\ pc = "formatted"
    /\ ~args.typed
    /\ read[1] = << <<>>, <<"O","'","B">> >>
    /\ out[1].v = <<"(", "'", "'", ", ", "'", "O", "'", "'", "B", "'", ")">>

\* ------------------------------------------------------------------------
\* C9: with typed = true each field is classified in the order numeric,
\* boolean, null, string: a non-empty value that parses as a float is
\* emitted unchanged; otherwise a value equal to true or false whatever its
\* case is emitted unchanged; otherwise the empty string is emitted as NULL;
\* otherwise the value is emitted single-quoted with its single quotes
\* doubled.  The empty string is never numeric.
\* ------------------------------------------------------------------------
C9_Class(f) ==
    IF f # <<>> /\ parse_f64_ok(f) THEN "numeric"
    ELSE IF to_lowercase(f) \in { <<"t","r","u","e">>, <<"f","a","l","s","e">> }
         THEN "boolean"
    ELSE IF f = <<>> THEN "null"
    ELSE "string"

C9_Literal(f) ==
    CASE C9_Class(f) = "numeric" -> f
      [] C9_Class(f) = "boolean" -> f
      [] C9_Class(f) = "null" -> <<"N","U","L","L">>
      [] C9_Class(f) = "string" -> <<"'">> \o C8_Doubled(f) \o <<"'">>

C9_TypedClassified ==
    (pc = "formatted" /\ args.typed) =>
        LET row == read[1] IN
        /\ out[1].v = <<"(">>
                      \o C8_Tuple([i \in 1..Len(row) |-> C9_Literal(row[i])])
                      \o <<")">>
        /\ \A i \in 1..Len(row) : row[i] = <<>> => C9_Class(row[i]) = "null"

C9_Witness ==
    /\ pc = "formatted"
    /\ args.typed
    /\ read[1] = << <<"F","A","L","S","E">>, <<>> >>
    /\ out[1].v = <<"(", "F", "A", "L", "S", "E", ", ", "N", "U", "L", "L", ")">>

\* ------------------------------------------------------------------------
\* C10: when the prefix (respectively suffix) file is absent the framing
\* step writes nothing and raises no error; the run goes on and the output
\* is what the statement generator alone writes.
\* ------------------------------------------------------------------------
C10_FramingStep ==
    /\ (pc = "prefix" /\ prefix' = Missing) =>
           (out' = out /\ pc' = "headers" /\ result' = "running")
    /\ (pc = "suffix" /\ suffix' = Missing) =>
           (out' = out /\ pc' = "done" /\ result' = "Ok")

C10_GeneratorAlone ==
    (Succeeded /\ prefix = Missing /\ suffix = Missing) =>
        out = generate_sql(args, headers, read, <<>>)

C10_MissingFraming == [](C10_GeneratorAlone) /\ [][C10_FramingStep]_vars

C10_Witness ==
    /\ Succeeded
    /\ prefix = Missing
    /\ suffix = Missing
    /\ Len(read) >= 1

\* ------------------------------------------------------------------------
\* C11: when the source file does not exist convert returns NotFound before
\* any output: the target file is neither created nor truncated and neither
\* prefix, statements nor suffix are written.
\* ------------------------------------------------------------------------
C11_NotFoundBeforeOutput ==
    result = "NotFound" =>
        /\ pc = "done"
        /\ ~target_created
        /\ out = <<>>
        /\ on_disk = 0
        /\ prefix = Unseen
        /\ suffix = Unseen
        /\ headers = <<>>
        /\ read = <<>>

C11_Witness == pc = "done" /\ result = "NotFound"

\* ------------------------------------------------------------------------
\* C12: a malformed record aborts the run at once with InvalidData: no
\* later record is processed and nothing more is written after the failure
\* (no closing `;`, no `commit;`, no suffix).
\* ------------------------------------------------------------------------
C12_Aborted ==
    malformed =>
        /\ pc = "done"
        /\ result = "InvalidData"
        /\ suffix = Unseen
        /\ out # <<>>
        /\ Last(out).k \in {"insert into", "tuple"}

C12_NothingAfter == malformed => UNCHANGED << out, read, on_disk, suffix >>

C13_NoPartialOutput == [][(~malformed /\ malformed') => out' = out]_vars

\* ------------------------------------------------------------------------
\* C14: on a successful run over records r1..rN the output holds exactly N
\* value tuples and the j-th tuple is the formatting of rj, whatever chunk,
\* chunk_insert and with_transaction are.
\* ------------------------------------------------------------------------
C14_Tuples(o) == SelectSeq(o, LAMBDA t : t.k = "tuple")

C14_OrderPreserved ==
    Succeeded =>
        /\ Len(C14_Tuples(out)) = Len(read)
        /\ \A j \in 1..Len(read) :
              C14_Tuples(out)[j].v = get_values(args, read[j])

C14_Witness ==
    /\ Succeeded
    /\ Len(read) = 3
    /\ read[1] # read[2]
    /\ args.chunk_insert = 2
    /\ args.chunk = 1

\* ------------------------------------------------------------------------
\* C15: the orchestrator resolves the field list, renders the prefix, runs
\* the batching over the record stream and renders the suffix, in this
\* order: the field list is resolved (and a failure to obtain it raised)
\* before the prefix is written, every statement and the closing terminator
\* lie between the rendered prefix and the rendered suffix, and the suffix
\* is written only after the batching has completed successfully.
\* ------------------------------------------------------------------------
C15_Between ==
    /\ \A i \in 1..Len(out) :
          out[i].k = "framing" => (i = 1 \/ (i >= Len(out) - 1 /\ suffix # Unseen))
    /\ (pc \notin {"convert", "create", "prefix"} /\ prefix # Missing
        /\ TemplateOk(prefix) /\ out # <<>>)
          => out[1] = FramingTok(render(prefix, args))

C15_SuffixAfterBatching ==
    suffix # Unseen =>
        LET g == generate_sql(args, headers, read,
                              append_file_content(prefix, args)) IN
        /\ ~malformed
        /\ C5_IsPrefix(g, out)
        /\ \A i \in (Len(g) + 1)..Len(out) : out[i].k \in {"framing", "\n"}

C15_FieldListFirst ==
    /\ prefix # Unseen => insert_fields # <<>>
    /\ result = "Other" => out = <<>>
    /\ C15_Between
    /\ C15_SuffixAfterBatching

\* C15 as amended: the prefix is rendered first and the field list resolved
\* after it (a failure to obtain it is raised with the prefix written), then
\* the batching runs and the suffix is rendered after it has succeeded.
C15_PrefixFirst ==
    /\ insert_fields # <<>> => prefix # Unseen
    /\ result = "Other" => (prefix # Unseen /\ out = append_file_content(prefix, args))
    /\ C15_Between
    /\ C15_SuffixAfterBatching

C15_Witness ==
    /\ Succeeded
    /\ prefix = GoodTemplate
    /\ suffix = GoodTemplate
    /\ Len(read) >= 1
    /\ out[1].k = "framing"
    /\ out[Len(out) - 1].k = "framing"

\* ------------------------------------------------------------------------
\* C16: a write failure on the output sink is always reported: when some of
\* the output has not reached the target file at the end of the run (data
\* still held by the buffered writer included), the run does not report
\* success.
\* ------------------------------------------------------------------------
C16_WriteFailureReported ==
    (pc = "done" /\ on_disk < Len(out)) => result # "Ok"

\* ------------------------------------------------------------------------
\* C17: with with_transaction = true a successful run has balanced
\* transaction markers: the generator writes `begin transaction` first and
\* `commit;` last, begin and commit alternate starting with begin, and every
\* INSERT statement lies between a begin and its commit.
\* ------------------------------------------------------------------------
C17_Balanced ==
    (Succeeded /\ args.with_transaction) =>
        LET g == Generated(out)
            m == C5_Markers(g) IN
        /\ Len(g) >= 2
        /\ g[1] = BEGIN
        /\ g[Len(g) - 1] = COMMIT
        /\ g[Len(g)] = SEMI
        /\ Len(m) % 2 = 0
        /\ \A i \in 1..Len(m) : m[i] = (IF i % 2 = 1 THEN BEGIN ELSE COMMIT)
        /\ Blocks(g).ok
        /\ ~Blocks(g).open

C17_Witness ==
    /\ Succeeded
    /\ args.with_transaction
    /\ args.chunk = 1
    /\ Len(read) = 3
    /\ Blocks(out).n = <<1, 1, 1>>

\* ------------------------------------------------------------------------
\* C18: after the last record exactly one closing terminator is written,
\* `;` blank line `commit;` with with_transaction and a bare `;` without;
\* for an empty record stream the generator writes no `insert into` and its
\* whole output is `begin transaction;` blank line `commit;`, respectively
\* the single `;`.
\* ------------------------------------------------------------------------
C18_Closing ==
    IF args.with_transaction THEN <<SEMI, BLANK, COMMIT, SEMI>> ELSE <<SEMI>>

C18_ClosingStep ==
    /\ (pc = "loop" /\ pc' = "suffix") => out' = out \o C18_Closing
    /\ (pc = "loop" /\ pc' = "loop") =>
          (Len(out') > Len(out) /\ Last(out').k = "tuple")
    /\ pc = "suffix" =>
          \A i \in (Len(out) + 1)..Len(out') : out'[i].k \in {"framing", "\n"}

C18_EmptyStream ==
    (Succeeded /\ read = <<>>) =>
        Generated(out) = (IF args.with_transaction THEN <<BEGIN>> ELSE <<>>)
                         \o C18_Closing

C18_ClosingTerminator == [](C18_EmptyStream) /\ [][C18_ClosingStep]_vars

C18_Witness ==
    /\ Succeeded
    /\ read = <<>>
    /\ args.with_transaction
    /\ Generated(out) = <<BEGIN, SEMI, BLANK, COMMIT, SEMI>>

\* ------------------------------------------------------------------------
\* C19: the statement chunk and the row chunk do not interfere: a
\* transaction boundary is written only when a record starts a new INSERT
\* statement (chunk_insert_count = 0), never between two rows of one
\* statement; chunk_count counts statements, so with chunk = c > 0 and
\* chunk_insert = k > 0 every transaction block but the last holds exactly
\* c*k rows; and 0 <= chunk_insert_count < max(k, 1) and, when c > 0,
\* chunk_count <= c.
\* ------------------------------------------------------------------------
C19_Count(o, t) == Len(SelectSeq(o, LAMBDA x : x = t))

RECURSIVE C19_Rows(_)
\* the number of value rows of each part of the output between `commit`s
C19_Rows(o) ==
    IF o = <<>> THEN <<0>>
    ELSE LET pre == C19_Rows(Front(o)) IN
         IF Last(o) = COMMIT THEN Append(pre, 0)
         ELSE IF Last(o).k = "tuple" THEN [pre EXCEPT ![Len(pre)] = @ + 1]
         ELSE pre

C19_BlockRows(o) ==
    IF args.with_transaction THEN Front(C19_Rows(o)) ELSE C19_Rows(o)

C19_Counters ==
    /\ chunk_insert_count >= 0
    /\ chunk_insert_count < (IF args.chunk_insert > 1 THEN args.chunk_insert ELSE 1)
    /\ args.chunk > 0 => chunk_count <= args.chunk

C19_NotBetweenRows ==
    \A i \in 1..Len(out) :
        out[i] = BEGIN =>
            \A j \in (i + 1)..Len(out) :
                (out[j].k = "tuple" /\ \A h \in (i + 1)..(j - 1) : out[h].k # "tuple")
                    => \E h \in (i + 1)..(j - 1) : out[h].k = "insert into"

C19_RowsPerBlock ==
    (Succeeded /\ args.chunk > 0 /\ args.chunk_insert > 0 /\ Len(read) >= 1) =>
        LET b == C19_BlockRows(Generated(out))
            ck == args.chunk * args.chunk_insert IN
        /\ Len(b) >= 1
        /\ \A j \in 1..(Len(b) - 1) : b[j] = ck
        /\ b[Len(b)] \in 1..ck

C19_BoundaryStep ==
    (pc = "loop" /\ pc' # "suffix" /\ C19_Count(out', COMMIT) > C19_Count(out, COMMIT))
        => chunk_insert_count = 0

C19_Independent ==
    /\ [](C19_Counters /\ C19_NotBetweenRows /\ C19_RowsPerBlock)
    /\ [][C19_BoundaryStep]_vars

C19_Witness ==
    /\ Succeeded
    /\ args.chunk = 2
    /\ args.chunk_insert = 2
    /\ Len(read) = 5
    /\ C19_BlockRows(Generated(out)) = <<4, 1>>

\* ------------------------------------------------------------------------
\* C20: on a successful run over N >= 1 records every INSERT statement is
\* terminated by exactly one `;` right after its last value tuple, the rows
\* of a statement are separated by exactly one `,`, no `,` directly precedes
\* `;`, `commit`, `begin transaction` or `insert into`, and every
\* `begin transaction` that a statement follows is terminated by exactly one
\* `;` -- also when the last statement holds fewer than chunk_insert rows.
\* ------------------------------------------------------------------------
C20_Punctuation ==
    (Succeeded /\ Len(read) >= 1) =>
        LET K == Kinds(Generated(out))
            n == Len(K)
            At(i) == IF i \in 1..n THEN K[i] ELSE "none" IN
        \A i \in 1..n :
            /\ K[i] = "tuple" => At(i + 1) \in {",", ";"}
            /\ K[i] = "," => (At(i - 1) = "tuple" /\ At(i + 1) = "\n"
                              /\ At(i + 2) = "tuple")
            /\ K[i] = ";" => (At(i - 1) \in {"tuple", "commit", "begin transaction"}
                              /\ At(i + 1) # ";")
            /\ K[i] = "begin transaction" => (At(i + 1) = ";" /\ At(i + 2) = "\n\n"
                                              /\ At(i + 3) = "insert into")
            /\ K[i] = "insert into" => (At(i + 1) = "\n" /\ At(i + 2) = "tuple")

C20_Witness ==
    /\ Succeeded
    /\ args.with_transaction
    /\ args.chunk = 1
    /\ args.chunk_insert = 2
    /\ Len(read) = 3
    /\ RowCounts(out) = <<2, 1>>

====
